---- MODULE Spec2Model ----
(***************************************************************************)
(* Model of the holiday-tree scene application (src/script.js, with        *)
(* src/unnamed/part_000 where its TouchController, reinitialize, init and  *)
(* animate differ, and the start-up and prediction loop of                 *)
(* src/unnamed/part_001).                                                  *)
(*                                                                         *)
(* Numbers.  Every coordinate, radius and scale is an exact rational       *)
(* <<p, q>> (q > 0, reduced).  A targetPosition (x, y, z) is kept in       *)
(* cylindrical form [r, ang, y] with x = r*cos(2*pi*ang), z =              *)
(* r*sin(2*pi*ang), ang a fraction of a full turn in [0, 1): every layout  *)
(* formula of the source has this shape, and it keeps cos/sin exact.       *)
(* A value of Math.random() is a rational u with 0 <= u < 1.               *)
(*                                                                         *)
(* Objects.  Particle records are JavaScript objects shared by reference   *)
(* between this.particles and this.photos: obj is the heap (id -> record), *)
(* particles and photos are sequences of ids.                              *)
(***************************************************************************)
EXTENDS Integers, Sequences, FiniteSets, TLC

VARIABLES
    variant,             \* which source is running: "script", "part_000", "part_001"
    isMobile,            \* deviceInfo.isMobile
    maxPhotos,           \* settings.maxPhotos
    mode,                \* STATE.mode
    obj,                 \* heap of particle objects
    particles,           \* this.particles (ids)
    photos,              \* this.photos (ids)
    nextId,              \* identity of the next object created
    isAvailable,         \* gestureRecognizer.isAvailable
    lastGestureTime,     \* gestureRecognizer.lastGestureTime
    isEnabled,           \* touchController.isEnabled
    touchStartPos,       \* touchController.touchStartPos.x
    lastTapTime,         \* touchController.lastTapTime
    longPressTimer,      \* touchController.longPressTimer (timer id or NoTimer)
    pinchStartDistance,  \* touchController.pinchStartDistance
    touchCount,          \* touchController.touchCount (part_000 only)
    uiHidden,            \* uiContainer carries the class 'ui-hidden'
    performanceLevel,    \* deviceInfo.performanceLevel / settings.performanceLevel
    isTouch,             \* deviceInfo.isTouch
    enableRotate,        \* controls.enableRotate (FALSE while controls is null)
    phase,               \* "constructed" until init() has run, then "ready"
    loopScheduled,       \* host: the pending callback of the prediction loop ("none", "loadeddata", "frame")
    isAnimating,         \* STATE.isAnimating
    frameCounter,        \* this.frameCounter % 2 (part_000 only)
    reading,             \* host: FileReader loads under way (reader.onload pending)
    timers,              \* host timer table: pending setTimeout callbacks
    fingers,             \* host: number of contacts on the canvas
    now,                 \* host: Date.now()
    added,               \* history: ids passed through addPhotoToScene since the collections were last emptied
    gestureAt,           \* history: time of the last mode transition made by processGestures
    steady,              \* host: the hand pose held still in front of the camera, if one is (on), and, as history, the transitions processGestures made since it is held
    tapSeq,              \* history: progress through touchstart(1), touchend, touchstart(1), touchend
    twoFinger,           \* history: was a second finger placed since the last single-finger touchstart; setMode calls of the touch pinch since the last two-finger touchstart or touchend
    ev                   \* history: the handler that ran in the last step and what it called

vars == <<variant, isMobile, maxPhotos, mode, obj, particles, photos, nextId,
          isAvailable, lastGestureTime, isEnabled, touchStartPos, lastTapTime,
          longPressTimer, pinchStartDistance, touchCount, uiHidden, timers,
          fingers, now, added, gestureAt, tapSeq, ev, performanceLevel, isTouch,
          enableRotate, phase, loopScheduled, isAnimating, frameCounter, reading,
          twoFinger, steady>>

cfgVars == <<variant, isMobile, maxPhotos, isAvailable, isEnabled, performanceLevel,
             isTouch, enableRotate, phase>>
loopVars == <<loopScheduled, isAnimating, frameCounter, reading>>
sceneVars == <<particles, photos, nextId, added>>
touchVars == <<touchStartPos, lastTapTime, longPressTimer, pinchStartDistance,
               touchCount, timers, fingers, uiHidden, tapSeq, twoFinger>>
gestureVars == <<lastGestureTime, gestureAt, steady>>

----------------------------------------------------------------------------
(* Bounds of the model *)

\* decorative particles created by createParticles (800..4000 in the source)
NumDecor == 1
\* settings.maxPhotos of the smallest tier, scaled down (5 in the source); the
\* next tier allows one more
MaxPhotosLow == 2
\* number of addPhotoToScene calls explored
MaxAdds == 4
\* Date.now() at construction (any value above every window of the program)
StartTime == 1000
\* the clock is explored up to StartTime + Horizon
Horizon == 1000

\* contacts the host reports at once
MaxFingers == 2

Modes == {"TREE", "SCATTER", "FOCUS"}

\* this.longPressTimer = null
NoTimer == 0

----------------------------------------------------------------------------
(* Exact rationals *)

RECURSIVE Gcd(_, _)
Gcd(a, b) == IF b = 0 THEN a ELSE Gcd(b, a % b)

Abs(a) == IF a < 0 THEN -a ELSE a

Rat(p, q) ==
    LET g == Gcd(Abs(p), Abs(q))
        s == IF q < 0 THEN -1 ELSE 1
    IN  <<(s * p) \div g, (s * q) \div g>>

RInt(n) == <<n, 1>>
RAdd(a, b) == Rat(a[1] * b[2] + b[1] * a[2], a[2] * b[2])
RSub(a, b) == Rat(a[1] * b[2] - b[1] * a[2], a[2] * b[2])
RMul(a, b) == Rat(a[1] * b[1], a[2] * b[2])
RLt(a, b) == a[1] * b[2] < b[1] * a[2]
RLe(a, b) == a[1] * b[2] <= b[1] * a[2]

\* exact square root of a rational that is a perfect square
RSqrt(a) ==
    <<CHOOSE k \in 0..a[1] : k * k = a[1], CHOOSE k \in 1..a[2] : k * k = a[2]>>

\* fractional part of a non-negative rational: the angle modulo a full turn
RFrac(a) == Rat(a[1] % a[2], a[2])

Half == <<1, 2>>
Zero == <<0, 1>>
One == <<1, 1>>

----------------------------------------------------------------------------
(* Math.random() *)

\* The values of Math.random() the model draws: 0, 1/2 and 9/10 (for these
\* sin(acos(2u - 1)) is rational: 0, 1 and 3/5).
RandVals == {Zero, Half, <<9, 10>>}

\* The draws one particle consumes in one layout pass, in call order.
DrawList ==
    << <<Half, Half, Half, Half, Half>>,
       <<(<<9, 10>>), (<<9, 10>>), (<<9, 10>>), (<<9, 10>>), (<<9, 10>>)>>,
       <<Zero, Zero, Zero, Half, Zero>> >>

Draws == {DrawList[j] : j \in 1..Len(DrawList)}

NoDraw == <<Half, Half, Half, Half, Half>>

\* The draws of one pass over n particles that the model explores: the
\* particles take the values of DrawList in turn, from any offset.
DrawSeqs(n) ==
    {[i \in 1..n |-> DrawList[((i + s) % Len(DrawList)) + 1]] :
        s \in 0..(Len(DrawList) - 1)}

----------------------------------------------------------------------------
(* Layout engine: ChristmasTreeApp.updateParticlePositions *)

\* THREE.Vector3 (x, y, z) = (r cos(2 pi ang), y, r sin(2 pi ang))
Vec(r, ang, y) == [r |-> r, ang |-> IF r = Zero THEN Zero ELSE ang, y |-> y]

\* new THREE.Vector3()
Origin == Vec(Zero, Zero, Zero)

\* squared distance of a position from the origin
DistSq(v) == RAdd(RMul(v.r, v.r), RMul(v.y, v.y))

\* Math.sin(Math.acos(2 * u - 1))
SinPhi(u) ==
    LET c == RSub(RMul(RInt(2), u), One)
    IN  RSqrt(RSub(One, RMul(c, c)))

TreeMaxRadius(mob) == IF mob THEN RInt(8) ELSE RInt(12)
TreeHeight(mob) == IF mob THEN RInt(18) ELSE RInt(25)
NormalScale(mob) == IF mob THEN <<4, 5>> ELSE One

\* the cone narrowing to a point: maxRadius * (1 - t)
TreeRadius_toApex(i, n, mob) ==
    RMul(TreeMaxRadius(mob), RSub(One, Rat(i, n)))

\* TREE: the particle at index i (from 0) of a collection of n
TreeRadius(i, n, mob) ==
    RMul(TreeMaxRadius(mob), RSub(One, RMul(Rat(i, n), <<4, 5>>)))

TreeTarget(i, n, mob) ==
    Vec(TreeRadius(i, n, mob),
        RFrac(RMul(Rat(i, n), RInt(25))),
        RSub(RMul(Rat(i, n), TreeHeight(mob)), RMul(TreeHeight(mob), Half)))

ScatterMinRadius(mob) == IF mob THEN RInt(6) ELSE RInt(8)
ScatterMaxRadius(mob) == IF mob THEN RInt(15) ELSE RInt(20)

\* a point of the shell: radius in [lo, hi), polar angle acos(2 u3 - 1),
\* azimuth u2 of a turn, height (u4 - 0.5) * ySpan
ShellTarget(d, lo, hi, ySpan) ==
    LET radius == RAdd(lo, RMul(d[1], RSub(hi, lo)))
    IN  Vec(RMul(radius, SinPhi(d[3])), d[2], RMul(RSub(d[4], Half), ySpan))

ScatterTarget(d, mob) ==
    ShellTarget(d, ScatterMinRadius(mob), ScatterMaxRadius(mob),
                RMul(ScatterMaxRadius(mob), <<3, 2>>))

ScatterScale(d) == RAdd(<<4, 5>>, RMul(d[5], <<2, 5>>))

\* FOCUS: the stage (0, 2, 35 / 25)
StageTarget(mob) == Vec(IF mob THEN RInt(25) ELSE RInt(35), <<1, 4>>, RInt(2))
StageScale(mob) == IF mob THEN <<7, 2>> ELSE <<9, 2>>

RingMinRadius(mob) == IF mob THEN RInt(15) ELSE RInt(20)

\* the ring without its base radius
RingTarget_noBase(d, mob) ==
    Vec(RMul(d[2], RInt(10)), d[1], RMul(RSub(d[3], Half), RInt(10)))

\* FOCUS: a photo that is not the subject goes to the outer ring
RingTarget(d, mob) ==
    Vec(RAdd(RingMinRadius(mob), RMul(d[2], RInt(10))),
        d[1],
        RMul(RSub(d[3], Half), RInt(10)))

FocusMinRadius(mob) == IF mob THEN RInt(8) ELSE RInt(10)
FocusMaxRadius(mob) == IF mob THEN RInt(20) ELSE RInt(25)

\* FOCUS: decorative particles form the background shell
FocusDecorTarget(d, mob) ==
    ShellTarget(d, FocusMinRadius(mob), FocusMaxRadius(mob), FocusMaxRadius(mob))

FocusDecorScale(d) == RAdd(Half, RMul(d[5], Half))

InSeq(s, x) == \E i \in 1..Len(s) : s[i] = x

\* the index forEach visits last for object x
LastIndex(s, x) == CHOOSE i \in 1..Len(s) : s[i] = x /\ \A j \in (i + 1)..Len(s) : s[j] # x

\* the assignment that also moves the rest position
Place_andBase(p, pos, sc) ==
    [p EXCEPT !.targetPosition = pos, !.scale = sc, !.basePosition = pos]

\* particle.targetPosition.set(...); particle.scale = ...
Place(p, pos, sc) == [p EXCEPT !.targetPosition = pos, !.scale = sc]

\* Math.floor(Math.random() * this.photos.length), as an index from 1; drawn
\* only in FOCUS with a photo to choose
TargetChoices(m, phs) == IF m = "FOCUS" /\ phs # <<>> THEN 1..Len(phs) ELSE {0}

\* Does the layout pass of mode m, with subject index k, draw random numbers
\* for the particle at index i?
Consumes(m, o, ps, phs, k, i) ==
    \/ m = "SCATTER" /\ ~o[ps[i]].isPhoto
    \/ m = "FOCUS" /\ phs # <<>> /\ ps[i] # phs[k]

\* the outcomes of the random draws of one layout pass: <<k, dr>>
Choices(m, o, ps, phs) ==
    {<<k, [i \in 1..Len(ps) |-> IF Consumes(m, o, ps, phs, k, i) THEN q[i] ELSE NoDraw]>> :
        k \in TargetChoices(m, phs), q \in DrawSeqs(Len(ps))}

\* the layout pass whose TREE branch sets the target and leaves the scale
updateParticlePositions_treeKeepsScale(m, o, ps, phs, mob, k, dr) ==
    IF m = "TREE" THEN
        [id \in DOMAIN o |->
            IF InSeq(ps, id) /\ ~o[id].isPhoto
            THEN Place(o[id], TreeTarget(LastIndex(ps, id) - 1, Len(ps), mob), o[id].scale)
            ELSE o[id]]
    ELSE IF m = "SCATTER" THEN
        [id \in DOMAIN o |->
            IF InSeq(ps, id) /\ ~o[id].isPhoto
            THEN Place(o[id], ScatterTarget(dr[LastIndex(ps, id)], mob),
                       ScatterScale(dr[LastIndex(ps, id)]))
            ELSE o[id]]
    ELSE IF m = "FOCUS" /\ Len(phs) > 0 THEN
        [id \in DOMAIN o |->
            IF id = phs[k] THEN Place(o[id], StageTarget(mob), StageScale(mob))
            ELSE IF ~InSeq(ps, id) THEN o[id]
            ELSE IF o[id].isPhoto
            THEN Place(o[id], RingTarget(dr[LastIndex(ps, id)], mob), NormalScale(mob))
            ELSE Place(o[id], FocusDecorTarget(dr[LastIndex(ps, id)], mob),
                       FocusDecorScale(dr[LastIndex(ps, id)]))]
    ELSE o

\* the layout pass without the test photos.length > 0 around the FOCUS branch
updateParticlePositions_noPhotoTest(m, o, ps, phs, mob, k, dr) ==
    IF m = "TREE" THEN
        [id \in DOMAIN o |->
            IF InSeq(ps, id) /\ ~o[id].isPhoto
            THEN Place(o[id], TreeTarget(LastIndex(ps, id) - 1, Len(ps), mob), NormalScale(mob))
            ELSE o[id]]
    ELSE IF m = "SCATTER" THEN
        [id \in DOMAIN o |->
            IF InSeq(ps, id) /\ ~o[id].isPhoto
            THEN Place(o[id], ScatterTarget(dr[LastIndex(ps, id)], mob),
                       ScatterScale(dr[LastIndex(ps, id)]))
            ELSE o[id]]
    ELSE IF m = "FOCUS" THEN
        [id \in DOMAIN o |->
            IF phs # <<>> /\ id = phs[k] THEN Place(o[id], StageTarget(mob), StageScale(mob))
            ELSE IF ~InSeq(ps, id) THEN o[id]
            ELSE IF o[id].isPhoto
            THEN Place(o[id], RingTarget(dr[LastIndex(ps, id)], mob), NormalScale(mob))
            ELSE Place(o[id], FocusDecorTarget(dr[LastIndex(ps, id)], mob),
                       FocusDecorScale(dr[LastIndex(ps, id)]))]
    ELSE o

\* The heap after one layout pass in mode m; k is the index drawn for the
\* subject photo, dr[i] the draws made for the particle at index i.
updateParticlePositions(m, o, ps, phs, mob, k, dr) ==
    IF m = "TREE" THEN
        [id \in DOMAIN o |->
            IF InSeq(ps, id) /\ ~o[id].isPhoto
            THEN Place(o[id], TreeTarget(LastIndex(ps, id) - 1, Len(ps), mob), NormalScale(mob))
            ELSE o[id]]
    ELSE IF m = "SCATTER" THEN
        [id \in DOMAIN o |->
            IF InSeq(ps, id) /\ ~o[id].isPhoto
            THEN Place(o[id], ScatterTarget(dr[LastIndex(ps, id)], mob),
                       ScatterScale(dr[LastIndex(ps, id)]))
            ELSE o[id]]
    ELSE IF m = "FOCUS" /\ Len(phs) > 0 THEN
        [id \in DOMAIN o |->
            IF id = phs[k] THEN Place(o[id], StageTarget(mob), StageScale(mob))
            ELSE IF ~InSeq(ps, id) THEN o[id]
            ELSE IF o[id].isPhoto
            THEN Place(o[id], RingTarget(dr[LastIndex(ps, id)], mob), NormalScale(mob))
            ELSE Place(o[id], FocusDecorTarget(dr[LastIndex(ps, id)], mob),
                       FocusDecorScale(dr[LastIndex(ps, id)]))]
    ELSE o

\* The layout pass of part_001.  Off mobile it computes what script.js
\* computes; on mobile the height span of SCATTER is 1.2 * maxRadius, that of
\* the photo ring 8, and the scales are drawn from narrower ranges.
updateParticlePositions_p1(m, o, ps, phs, mob, k, dr) ==
    IF m = "TREE" THEN
        [id \in DOMAIN o |->
            IF InSeq(ps, id) /\ ~o[id].isPhoto
            THEN Place(o[id], TreeTarget(LastIndex(ps, id) - 1, Len(ps), mob), NormalScale(mob))
            ELSE o[id]]
    ELSE IF m = "SCATTER" THEN
        [id \in DOMAIN o |->
            IF InSeq(ps, id) /\ ~o[id].isPhoto
            THEN LET d == dr[LastIndex(ps, id)]
                 IN  Place(o[id],
                           ShellTarget(d, ScatterMinRadius(mob), ScatterMaxRadius(mob),
                                       RMul(ScatterMaxRadius(mob),
                                            IF mob THEN <<6, 5>> ELSE <<3, 2>>)),
                           RAdd(IF mob THEN <<3, 5>> ELSE <<4, 5>>,
                                RMul(d[5], IF mob THEN <<3, 10>> ELSE <<2, 5>>)))
            ELSE o[id]]
    ELSE IF m = "FOCUS" /\ Len(phs) > 0 THEN
        [id \in DOMAIN o |->
            IF id = phs[k] THEN Place(o[id], StageTarget(mob), StageScale(mob))
            ELSE IF ~InSeq(ps, id) THEN o[id]
            ELSE LET d == dr[LastIndex(ps, id)]
                 IN  IF o[id].isPhoto
                     THEN Place(o[id],
                                Vec(RAdd(RingMinRadius(mob), RMul(d[2], RInt(10))),
                                    d[1],
                                    RMul(RSub(d[3], Half), IF mob THEN RInt(8) ELSE RInt(10))),
                                NormalScale(mob))
                     ELSE Place(o[id], FocusDecorTarget(d, mob),
                                RAdd(IF mob THEN <<2, 5>> ELSE Half,
                                     RMul(d[5], IF mob THEN <<3, 10>> ELSE Half)))]
    ELSE o

----------------------------------------------------------------------------
(* Mode controller: ChristmasTreeApp.setMode *)

\* What a handler did: the new mode and heap, the setMode calls it made and
\* the layout passes that ran.
Effect(m, o, calls, passes) == [mode |-> m, obj |-> o, setMode |-> calls, layout |-> passes]

\* a handler that calls nothing
NoCall(m, o) == Effect(m, o, <<>>, <<>>)

\* setMode that writes the mode and skips the layout engine
setMode_noLayout(m, o, ps, phs, mob, c) == Effect(m, o, <<m>>, <<>>)

\* this.setMode(m): write STATE.mode, then run the layout engine of the
\* running source with the random outcomes c
setMode(m, o, ps, phs, mob, c) ==
    Effect(m,
           IF variant = "part_001"
           THEN updateParticlePositions_p1(m, o, ps, phs, mob, c[1], c[2])
           ELSE updateParticlePositions(m, o, ps, phs, mob, c[1], c[2]),
           <<m>>, <<m>>)

\* the random outcomes of a handler that calls setMode(target), or nothing
\* when target is "none"
CallChoices(target, o, ps, phs) ==
    IF target = "none" THEN {<<0, <<>>>>} ELSE Choices(target, o, ps, phs)

Call(target, m, o, ps, phs, mob, c) ==
    IF target = "none" THEN NoCall(m, o) ELSE setMode(target, o, ps, phs, mob, c)

ModeList == <<"TREE", "SCATTER", "FOCUS">>

\* indexOf counted from 1
IndexOfMode_fromOne(m) ==
    IF \E i \in 1..Len(ModeList) : ModeList[i] = m
    THEN CHOOSE i \in 1..Len(ModeList) : ModeList[i] = m
    ELSE -1

\* modes.indexOf(m), from 0; -1 when absent
IndexOfMode(m) ==
    IF \E i \in 1..Len(ModeList) : ModeList[i] = m
    THEN (CHOOSE i \in 1..Len(ModeList) : ModeList[i] = m) - 1
    ELSE -1

\* the next index without the modulo: modes[3] is undefined
NextMode_noWrap(m) ==
    IF IndexOfMode(m) + 1 < Len(ModeList) THEN ModeList[IndexOfMode(m) + 2] ELSE "undefined"

\* modes[(modes.indexOf(m) + 1) % modes.length]
NextMode(m) == ModeList[((IndexOfMode(m) + 1) % Len(ModeList)) + 1]

\* the handlers that ask for the next mode of the cycle
NextModeOps == {"key", "longpress"}

\* history: the modes from which the latest consecutive next-mode requests
\* started (the last three of them); any other call of setMode ends the run
Run(op, e) ==
    IF e.setMode = <<>> THEN ev.run
    ELSE IF op \notin NextModeOps THEN <<>>
    ELSE IF Len(ev.run) < 3 THEN Append(ev.run, mode)
    ELSE Append(Tail(ev.run), mode)

\* the targets and scales of the decorative particles, by index
DecorLayout(o, ps) ==
    [i \in {j \in 1..Len(ps) : ~o[ps[j]].isPhoto} |->
        <<o[ps[i]].targetPosition, o[ps[i]].scale>>]

\* history: tree is the decorative layout the latest TREE pass over the
\* collections as they stand produced (<<>> before the first); again tells
\* that this step ran a TREE pass when there was an earlier one
Event(op, arg, e, toggles) ==
    [op |-> op, arg |-> arg, setMode |-> e.setMode, layout |-> e.layout,
     toggles |-> toggles, run |-> Run(op, e),
     tree |-> IF e.layout = <<"TREE">> THEN DecorLayout(e.obj, particles) ELSE ev.tree,
     again |-> e.layout = <<"TREE">> /\ ev.tree # <<>>]

\* history of a step that changed the collections: no TREE pass ran over them
NewScene(e) == [e EXCEPT !.tree = <<>>, !.again = FALSE]

\* handleKeyDown: ' ' asks for the next mode, 'h' toggles the UI, any other
\* key changes nothing of this state
handleKeyDown(key) ==
    /\ IF key = " " THEN
            /\ \E c \in Choices(NextMode(mode), obj, particles, photos) :
                LET e == setMode(NextMode(mode), obj, particles, photos, isMobile, c)
                IN  /\ mode' = e.mode
                    /\ obj' = e.obj
                    /\ ev' = Event("key", key, e, 0)
            /\ UNCHANGED uiHidden
       ELSE
            /\ uiHidden' = IF key = "h" THEN ~uiHidden ELSE uiHidden
            /\ ev' = Event("keyOther", key, NoCall(mode, obj), IF key = "h" THEN 1 ELSE 0)
            /\ UNCHANGED <<mode, obj>>
    /\ UNCHANGED <<cfgVars, loopVars, sceneVars, gestureVars, now, touchStartPos, lastTapTime,
                   longPressTimer, pinchStartDistance, touchCount, timers, fingers, tapSeq,
                   twoFinger>>

\* event.key.toLowerCase() of the keys pressed where the mode is at stake
Keys == {" ", "escape"}

\* the data-mode attributes of the children of #modeControls
ButtonModes == Modes

\* click on a mode button: if (mode) this.setMode(mode)
handleModeButton ==
    /\ \E m \in ButtonModes :
        \E c \in Choices(m, obj, particles, photos) :
            LET e == setMode(m, obj, particles, photos, isMobile, c)
            IN  /\ mode' = e.mode
                /\ obj' = e.obj
                /\ ev' = Event("button", m, e, 0)
    /\ UNCHANGED <<cfgVars, loopVars, sceneVars, touchVars, gestureVars, now>>

----------------------------------------------------------------------------
(* Particle and photo collections *)

\* photoGroup.position.set(...) of addPhotoToScene: angle = u1 of a turn,
\* radius = (10 | 15) + u2 * 10, y = (u3 - 0.5) * 15
PhotoSpawn(d, mob) ==
    Vec(RAdd(IF mob THEN RInt(10) ELSE RInt(15), RMul(d[2], RInt(10))),
        d[1],
        RMul(RSub(d[3], Half), RInt(15)))

\* (Math.random() - 0.5) * 0.02 on each axis, for the draw 1/2
NoDrift == Origin

\* A value that animate interpolates (mesh.position, mesh.scale): either
\* exactly at a known value, or somewhere on its way to one.
At(v) == [at |-> v, moving |-> FALSE]
Toward(v) == [at |-> v, moving |-> TRUE]

\* The particle object of createParticles (photo = FALSE) and of
\* addPhotoToScene (photo = TRUE).  position and meshScale are mesh.position
\* and mesh.scale: a decorative mesh starts at the origin, a photo group on
\* its spawn ring.  The random draws of the constructor are taken as 1/2.
NewParticle(photo, mob) ==
    [isPhoto |-> photo,
     basePosition |-> IF photo THEN PhotoSpawn(NoDraw, mob) ELSE Origin,
     targetPosition |-> Origin,
     velocity |-> IF photo THEN Origin ELSE NoDrift,
     rotationSpeed |-> IF photo THEN Origin ELSE NoDrift,
     scale |-> One,
     position |-> At(IF photo THEN PhotoSpawn(NoDraw, mob) ELSE Origin),
     meshScale |-> At(One)]

DecorIds == 1..NumDecor

\* the objects still referenced by one of the two collections
Live(o, ps, phs) ==
    [id \in {x \in DOMAIN o : InSeq(ps, x) \/ InSeq(phs, x)} |-> o[id]]

\* this.particles.filter(p => p !== x)
Without(s, x) == SelectSeq(s, LAMBDA y : y # x)

\* createParticles on empty collections: new decorative particles, then one
\* layout pass in the current mode.  The set of heaps it can produce.
createParticles(m, mob) ==
    LET ps == [i \in DecorIds |-> i]
        o == [id \in DecorIds |-> NewParticle(FALSE, mob)]
    IN  {updateParticlePositions(m, o, ps, <<>>, mob, c[1], c[2]) : c \in Choices(m, o, ps, <<>>)}

\* eviction one photo too late: photos.length > maxPhotos
addPhotoToScene_late(o, ps, phs, id, maxP, mob) ==
    LET full == Len(phs) > maxP
        ps1 == IF full THEN Without(ps, Head(phs)) ELSE ps
        phs1 == IF full THEN Tail(phs) ELSE phs
        ps2 == Append(ps1, id)
        phs2 == Append(phs1, id)
        o2 == [x \in DOMAIN o \cup {id} |-> IF x = id THEN NewParticle(TRUE, mob) ELSE o[x]]
    IN  [obj |-> Live(o2, ps2, phs2), particles |-> ps2, photos |-> phs2]

\* eviction from the photo list alone: the particle collection keeps the
\* evicted photo
addPhotoToScene_photosOnly(o, ps, phs, id, maxP, mob) ==
    LET full == Len(phs) >= maxP
        phs1 == IF full THEN Tail(phs) ELSE phs
        ps2 == Append(ps, id)
        phs2 == Append(phs1, id)
        o2 == [x \in DOMAIN o \cup {id} |-> IF x = id THEN NewParticle(TRUE, mob) ELSE o[x]]
    IN  [obj |-> Live(o2, ps2, phs2), particles |-> ps2, photos |-> phs2]

\* addPhotoToScene with the new photo object id: evict the oldest photo when
\* the list is full, then append to both collections.
addPhotoToScene(o, ps, phs, id, maxP, mob) ==
    LET full == Len(phs) >= maxP
        ps1 == IF full THEN Without(ps, Head(phs)) ELSE ps
        phs1 == IF full THEN Tail(phs) ELSE phs
        ps2 == Append(ps1, id)
        phs2 == Append(phs1, id)
        o2 == [x \in DOMAIN o \cup {id} |-> IF x = id THEN NewParticle(TRUE, mob) ELSE o[x]]
    IN  [obj |-> Live(o2, ps2, phs2), particles |-> ps2, photos |-> phs2]

\* addPhotoToScene of part_001 with the new photo object id: append to both
\* collections, then, on mobile only, drop the oldest photo when the list has
\* grown past the limit (5 in the source, scaled down as MaxPhotosLow).  The
\* spawn ring is (10 | 15) + u * (5 | 10), its height span 10 | 15.
addPhotoToScene_p1(o, ps, phs, id, mob) ==
    LET spawn == Vec(RAdd(IF mob THEN RInt(10) ELSE RInt(15),
                          RMul(Half, IF mob THEN RInt(5) ELSE RInt(10))),
                     Half, Zero)
        photo == [NewParticle(TRUE, mob) EXCEPT !.basePosition = spawn,
                                                !.position = At(spawn)]
        ps1 == Append(ps, id)
        phs1 == Append(phs, id)
        over == mob /\ Len(phs1) > MaxPhotosLow
        ps2 == IF over THEN Without(ps1, Head(phs1)) ELSE ps1
        phs2 == IF over THEN Tail(phs1) ELSE phs1
        o2 == [x \in DOMAIN o \cup {id} |-> IF x = id THEN photo ELSE o[x]]
    IN  [obj |-> Live(o2, ps2, phs2), particles |-> ps2, photos |-> phs2]

\* FileReader loads under way at once
MaxReading == 1

\* 5 * 1024 * 1024
MobileFileLimit == 5242880

\* file.size of the chosen file: at the limit and one byte above; 0 stands
\* for a change event without a file
FileSizes == {0, MobileFileLimit, MobileFileLimit + 1}

\* the size test against ten megabytes
Oversized_tenMB(mob, size) == mob /\ size > 2 * MobileFileLimit

\* this.deviceInfo.isMobile && file.size > 5 * 1024 * 1024
Oversized(mob, size) == mob /\ size > MobileFileLimit

\* handleFileUpload, the change listener of the file input: no file, or a
\* file too large on mobile, and it returns; otherwise a FileReader is
\* started whose onload adds the photo
handleFileUpload ==
    /\ phase = "ready"
    /\ \E size \in FileSizes :
        LET read == size # 0 /\ ~Oversized(isMobile, size)
        IN  /\ read => (reading < MaxReading /\ nextId + reading <= NumDecor + MaxAdds)
            /\ reading' = IF read THEN reading + 1 ELSE reading
            /\ ev' = Event("fileChange", [size |-> size], NoCall(mode, obj), 0)
    /\ UNCHANGED <<cfgVars, loopScheduled, isAnimating, frameCounter, mode, obj,
                   sceneVars, touchVars, gestureVars, now>>

\* reader.onload of a started upload: this.addPhotoToScene(texture)
readerOnload ==
    /\ variant # "part_001" /\ reading > 0
    /\ reading' = reading - 1
    /\ LET r == addPhotoToScene(obj, particles, photos, nextId, maxPhotos, isMobile)
       IN  /\ obj' = r.obj
           /\ particles' = r.particles
           /\ photos' = r.photos
    /\ nextId' = nextId + 1
    /\ added' = Append(added, nextId)
    /\ ev' = NewScene(Event("upload", nextId, NoCall(mode, obj), 0))
    /\ UNCHANGED <<cfgVars, loopScheduled, isAnimating, frameCounter, mode, touchVars,
                   gestureVars, now>>

\* part_001: the load callback of a started upload, this.addPhotoToScene(texture)
readerOnload_p1 ==
    /\ variant = "part_001" /\ reading > 0
    /\ reading' = reading - 1
    /\ LET r == addPhotoToScene_p1(obj, particles, photos, nextId, isMobile)
       IN  /\ obj' = r.obj
           /\ particles' = r.particles
           /\ photos' = r.photos
    /\ nextId' = nextId + 1
    /\ added' = Append(added, nextId)
    /\ ev' = NewScene(Event("upload", nextId, NoCall(mode, obj), 0))
    /\ UNCHANGED <<cfgVars, loopScheduled, isAnimating, frameCounter, mode, touchVars,
                   gestureVars, now>>

\* particle.mesh.geometry.dispose() of the clean-up loop: the mesh of a photo
\* particle is a THREE.Group, which has no geometry, so the loop throws a
\* TypeError at the first photo, before the collections are emptied
DisposeThrows(o, ps) == \E i \in 1..Len(ps) : o[ps[i]].isPhoto

\* reinitialize of script.js: clean up, empty both collections,
\* createParticles, createDefaultPhoto
reinitialize ==
    /\ variant = "script"
    /\ IF DisposeThrows(obj, particles) THEN
            /\ ev' = Event("reinitialize", "TypeError", NoCall(mode, obj), 0)
            /\ UNCHANGED <<obj, sceneVars>>
       ELSE
            /\ nextId <= NumDecor + MaxAdds
            /\ \E o \in createParticles(mode, isMobile) :
                LET r == addPhotoToScene(o, [i \in DecorIds |-> i], <<>>, nextId, maxPhotos, isMobile)
                IN  /\ obj' = r.obj
                    /\ particles' = r.particles
                    /\ photos' = r.photos
            /\ nextId' = nextId + 1
            /\ added' = <<nextId>>
            /\ ev' = NewScene(Event("reinitialize", "done", Effect(mode, obj, <<>>, <<mode>>), 0))
    /\ UNCHANGED <<cfgVars, loopVars, mode, touchVars, gestureVars, now>>

\* reinitialize of part_000: clean up, empty both collections, createParticles
reinitialize_p0 ==
    /\ variant = "part_000"
    /\ IF DisposeThrows(obj, particles) THEN
            /\ ev' = Event("reinitialize", "TypeError", NoCall(mode, obj), 0)
            /\ UNCHANGED <<obj, sceneVars>>
       ELSE
            /\ \E o \in createParticles(mode, isMobile) : obj' = o
            /\ particles' = [i \in DecorIds |-> i]
            /\ photos' = <<>>
            /\ added' = <<>>
            /\ ev' = NewScene(Event("reinitialize", "done", Effect(mode, obj, <<>>, <<mode>>), 0))
            /\ UNCHANGED nextId
    /\ UNCHANGED <<cfgVars, loopVars, mode, touchVars, gestureVars, now>>

----------------------------------------------------------------------------
(* Host clock and timers *)

\* a pending setTimeout callback: its due time, which is also its id; and,
\* as history, whether a touchmove, a touchend or a second-finger touchstart
\* was dispatched before it came due
Timer(due) == [due |-> due, disturbed |-> FALSE]

\* history: a touch event dispatched now disturbs every timer not yet due
Disturb(ts) == {[t EXCEPT !.disturbed = t.disturbed \/ now < t.due] : t \in ts}

\* clearTimeout(id)
clearTimeout(ts, id) == {t \in ts : t.due # id}

Idle == Event("idle", 0, NoCall(mode, obj), 0)

\* time passes, up to the next pending callback at most: a callback that is
\* due runs before more time passes
Tick(dt) ==
    /\ now + dt <= StartTime + Horizon
    /\ \A t \in timers : now + dt <= t.due
    /\ now' = now + dt
    /\ ev' = Idle
    /\ UNCHANGED <<cfgVars, loopVars, mode, obj, sceneVars, touchVars, gestureVars>>

----------------------------------------------------------------------------
(* TouchController *)

LongPressMs == 800
DoubleTapMaxMs == 300
DoubleTapMinMs == 50

\* clientX of a touch
XCoords == {0, 120}
\* inter-finger distance when the second finger lands
StartDists == {0, 100}
\* inter-finger distance during a two-finger move
MoveDists == {69, 70, 71}

\* pinchRatio <= 0.7
PinchDetected_inclusive(currentDistance, startDistance) ==
    RLe(Rat(currentDistance, startDistance), <<7, 10>>)

\* pinchRatio < 0.7, with pinchRatio = currentDistance / this.pinchStartDistance
PinchDetected(currentDistance, startDistance) ==
    RLt(Rat(currentDistance, startDistance), <<7, 10>>)

\* if (this.longPressTimer) { clearTimeout(this.longPressTimer); this.longPressTimer = null; }
ClearLongPress(ts) ==
    IF longPressTimer # NoTimer THEN clearTimeout(ts, longPressTimer) ELSE ts

\* history of a touchstart with n touches: a single finger starts afresh, a
\* second finger begins a two-finger gesture
Landed(n) ==
    IF n = 1 THEN [twoFinger EXCEPT !.second = FALSE]
    ELSE IF n = 2 THEN [second |-> TRUE, pinches |-> 0]
    ELSE twoFinger

\* handleTouchStart with event.touches.length = n, touches[0].clientX = x and
\* the two touches d apart
TouchStart(n, x, d) ==
    /\ fingers' = n
    /\ IF n = 1 THEN
            /\ touchStartPos' = x
            /\ longPressTimer' = now + LongPressMs
            /\ timers' = timers \cup {Timer(now + LongPressMs)}
            /\ UNCHANGED pinchStartDistance
       ELSE IF n = 2 THEN
            /\ pinchStartDistance' = d
            /\ timers' = ClearLongPress(Disturb(timers))
            /\ longPressTimer' = NoTimer
            /\ UNCHANGED touchStartPos
       ELSE
            /\ timers' = Disturb(timers)
            /\ UNCHANGED <<touchStartPos, longPressTimer, pinchStartDistance>>
    /\ tapSeq' = IF n = 1 /\ fingers = 0 THEN (IF tapSeq = 2 THEN 3 ELSE 1) ELSE 0
    /\ twoFinger' = Landed(n)
    /\ ev' = Event("touchstart", n, NoCall(mode, obj), 0)
    /\ UNCHANGED <<cfgVars, loopVars, mode, obj, sceneVars, gestureVars, lastTapTime, uiHidden, now>>

\* the start distance left standing after the pinch triggered
AfterPinch_kept(called, startDistance) == startDistance

\* this.pinchStartDistance = 0 in the branch that called setMode
AfterPinch(called, startDistance) == IF called THEN 0 ELSE startDistance

\* handleTouchMove with event.touches.length = fingers
TouchMove(x, d) ==
    /\ IF fingers = 1 /\ touchStartPos # 0 THEN
            /\ touchStartPos' = x
            /\ timers' = ClearLongPress(Disturb(timers))
            /\ longPressTimer' = NoTimer
            /\ ev' = Event("touchmove", [touches |-> 1, dist |-> 0, start |-> 0],
                           NoCall(mode, obj), 0)
            /\ UNCHANGED <<mode, obj, pinchStartDistance>>
       ELSE IF fingers = 2 /\ pinchStartDistance > 0 THEN
            LET target == IF PinchDetected(d, pinchStartDistance) /\ mode # "FOCUS"
                          THEN "FOCUS" ELSE "none"
            IN  \E c \in CallChoices(target, obj, particles, photos) :
                LET e == Call(target, mode, obj, particles, photos, isMobile, c)
                IN
                /\ mode' = e.mode
                /\ obj' = e.obj
                /\ pinchStartDistance' = AfterPinch(e.setMode # <<>>, pinchStartDistance)
                /\ timers' = Disturb(timers)
                /\ ev' = Event("touchmove",
                               [touches |-> 2, dist |-> d, start |-> pinchStartDistance], e, 0)
                /\ UNCHANGED <<touchStartPos, longPressTimer>>
       ELSE
            /\ timers' = Disturb(timers)
            /\ ev' = Event("touchmove", [touches |-> fingers, dist |-> 0, start |-> 0],
                           NoCall(mode, obj), 0)
            /\ UNCHANGED <<mode, obj, touchStartPos, longPressTimer, pinchStartDistance>>
    /\ tapSeq' = 0
    /\ twoFinger' = [twoFinger EXCEPT !.pinches = IF ev'.setMode # <<>> /\ @ < 2 THEN @ + 1 ELSE @]
    /\ UNCHANGED <<cfgVars, loopVars, sceneVars, gestureVars, fingers, lastTapTime, uiHidden, now>>

\* handleTouchEnd; left contacts stay down; doubleTap is the double-tap test
TouchEnd(left, doubleTap) ==
    /\ fingers' = left
    /\ timers' = ClearLongPress(Disturb(timers))
    /\ longPressTimer' = NoTimer
    /\ uiHidden' = IF doubleTap THEN ~uiHidden ELSE uiHidden
    /\ lastTapTime' = now
    /\ pinchStartDistance' = 0
    /\ tapSeq' = IF fingers = 1 /\ tapSeq \in {1, 3} THEN 2 ELSE 0
    /\ twoFinger' = [twoFinger EXCEPT !.pinches = 0]
    /\ ev' = Event("touchend",
                   [gap |-> now - lastTapTime, second |-> fingers = 1 /\ tapSeq = 3],
                   NoCall(mode, obj),
                   IF doubleTap THEN 1 ELSE 0)
    /\ UNCHANGED <<cfgVars, loopVars, mode, obj, sceneVars, gestureVars, touchStartPos, now>>

\* timeDiff < 300 && timeDiff > 50
IsDoubleTap(timeDiff) == timeDiff < DoubleTapMaxMs /\ timeDiff > DoubleTapMinMs

handleTouchStart ==
    /\ isEnabled /\ variant = "script"
    /\ \E n \in (fingers + 1)..MaxFingers, x \in XCoords, d \in StartDists : TouchStart(n, x, d)
    /\ UNCHANGED touchCount

handleTouchMove ==
    /\ isEnabled /\ variant = "script" /\ fingers > 0
    /\ \E x \in XCoords, d \in MoveDists : TouchMove(x, d)
    /\ UNCHANGED touchCount

handleTouchEnd ==
    /\ isEnabled /\ variant = "script" /\ fingers > 0
    /\ \E left \in 0..(fingers - 1) : TouchEnd(left, IsDoubleTap(now - lastTapTime))
    /\ UNCHANGED touchCount

\* part_000: the handlers also keep this.touchCount
handleTouchStart_p0 ==
    /\ isEnabled /\ variant = "part_000"
    /\ \E n \in (fingers + 1)..MaxFingers, x \in XCoords, d \in StartDists :
        TouchStart(n, x, d) /\ touchCount' = n

handleTouchMove_p0 ==
    /\ isEnabled /\ variant = "part_000" /\ fingers > 0
    /\ \E x \in XCoords, d \in MoveDists : TouchMove(x, d)
    /\ touchCount' = fingers

\* timeDiff < 300 && timeDiff > 50 && this.touchCount === 0
IsDoubleTap_p0(timeDiff) == IsDoubleTap(timeDiff) /\ touchCount = 0

handleTouchEnd_p0 ==
    /\ isEnabled /\ variant = "part_000" /\ fingers > 0
    /\ \E left \in 0..(fingers - 1) : TouchEnd(left, IsDoubleTap_p0(now - lastTapTime))
    /\ touchCount' = 0

\* the long-press timer callback runs: handleLongPress
handleLongPress ==
    /\ \E t \in timers :
        /\ t.due <= now
        /\ timers' = timers \ {t}
        /\ \E c \in Choices(NextMode(mode), obj, particles, photos) :
            LET e == setMode(NextMode(mode), obj, particles, photos, isMobile, c)
            IN  /\ mode' = e.mode
                /\ obj' = e.obj
                /\ ev' = Event("longpress", [disturbed |-> t.disturbed], e, 0)
    /\ UNCHANGED <<cfgVars, loopVars, sceneVars, gestureVars, touchStartPos, lastTapTime,
                   longPressTimer, pinchStartDistance, touchCount, fingers, uiHidden,
                   tapSeq, twoFinger, now>>

\* part_001: the delay of the long-press timer
LongPressMs_p1 == 1000

\* part_001, the touchstart listener of enableTouchControls (isEnabled stands
\* for touchControlsActive, touchStartPos = 0 for null): one touch records
\* the position and arms the long-press timer, two touches call
\* setMode('FOCUS').  The d of the history is the distance of the two touches.
touchstart_p1 ==
    /\ isEnabled /\ variant = "part_001"
    /\ \E n \in (fingers + 1)..MaxFingers, x \in XCoords \ {0}, d \in StartDists :
        /\ fingers' = n
        /\ IF n = 1 THEN
                /\ touchStartPos' = x
                /\ longPressTimer' = now + LongPressMs_p1
                /\ timers' = timers \cup {Timer(now + LongPressMs_p1)}
                /\ ev' = Event("touchstart", [touches |-> n, dist |-> 0, start |-> 0],
                               NoCall(mode, obj), 0)
                /\ UNCHANGED <<mode, obj>>
           ELSE IF n = 2 THEN
                /\ \E c \in Choices("FOCUS", obj, particles, photos) :
                    LET e == setMode("FOCUS", obj, particles, photos, isMobile, c)
                    IN  /\ mode' = e.mode
                        /\ obj' = e.obj
                        /\ ev' = Event("touchstart", [touches |-> n, dist |-> d, start |-> d],
                                       e, 0)
                /\ timers' = Disturb(timers)
                /\ UNCHANGED <<touchStartPos, longPressTimer>>
           ELSE
                /\ timers' = Disturb(timers)
                /\ ev' = Event("touchstart", [touches |-> n, dist |-> 0, start |-> 0],
                               NoCall(mode, obj), 0)
                /\ UNCHANGED <<mode, obj, touchStartPos, longPressTimer>>
        /\ tapSeq' = IF n = 1 /\ fingers = 0 THEN (IF tapSeq = 2 THEN 3 ELSE 1) ELSE 0
        /\ twoFinger' = Landed(n)
    /\ UNCHANGED <<cfgVars, loopVars, sceneVars, gestureVars, lastTapTime, uiHidden,
                   pinchStartDistance, touchCount, now>>

\* part_001, the touchmove listener: a single finger with a recorded
\* position rotates and clears the long-press timer; nothing else is done
touchmove_p1 ==
    /\ isEnabled /\ variant = "part_001" /\ fingers > 0
    /\ \E x \in XCoords \ {0}, d \in MoveDists :
        /\ IF fingers = 1 /\ touchStartPos # 0 THEN
                /\ touchStartPos' = x
                /\ timers' = ClearLongPress(Disturb(timers))
                /\ longPressTimer' = NoTimer
           ELSE
                /\ timers' = Disturb(timers)
                /\ UNCHANGED <<touchStartPos, longPressTimer>>
        /\ ev' = Event("touchmove",
                       [touches |-> fingers, dist |-> IF fingers = 2 THEN d ELSE 0, start |-> 0],
                       NoCall(mode, obj), 0)
    /\ tapSeq' = 0
    /\ UNCHANGED <<cfgVars, loopVars, mode, obj, sceneVars, gestureVars, lastTapTime,
                   uiHidden, pinchStartDistance, touchCount, fingers, twoFinger, now>>

\* part_001, the touchend listener: clear the long-press timer, toggle the
\* UI when the last tap was less than 300 ms ago and no touch is left
touchend_p1 ==
    /\ isEnabled /\ variant = "part_001" /\ fingers > 0
    /\ \E left \in 0..(fingers - 1) :
        LET doubleTap == now - lastTapTime < DoubleTapMaxMs /\ left = 0
        IN  /\ fingers' = left
            /\ timers' = ClearLongPress(Disturb(timers))
            /\ longPressTimer' = NoTimer
            /\ uiHidden' = IF doubleTap THEN ~uiHidden ELSE uiHidden
            /\ lastTapTime' = now
            /\ touchStartPos' = 0
            /\ tapSeq' = IF fingers = 1 /\ tapSeq \in {1, 3} THEN 2 ELSE 0
            /\ ev' = Event("touchend",
                           [gap |-> now - lastTapTime, second |-> fingers = 1 /\ tapSeq = 3],
                           NoCall(mode, obj),
                           IF doubleTap THEN 1 ELSE 0)
    /\ UNCHANGED <<cfgVars, loopVars, mode, obj, sceneVars, gestureVars,
                   pinchStartDistance, touchCount, twoFinger, now>>

----------------------------------------------------------------------------
(* GestureRecognizer *)

\* this.debounceTime
DebounceTime == 500
\* thresholds of processGestures, in thousandths of the image size
PinchThreshold == 50
FistThreshold == 250
OpenThreshold == 400

\* A landmark frame, reduced to the distances processGestures computes, in
\* thousandths: thumb tip to index tip, and the four fingertips to the wrist.
Frames ==
    [pinch : {30, 50, 100},
     tips : {<<200, 200, 200, 200>>, <<200, 200, 300, 300>>, <<300, 300, 300, 300>>,
             <<400, 400, 400, 400>>, <<500, 500, 500, 500>>}]

\* distances.reduce((a, b) => a + b) / distances.length
AvgDistance(f) == Rat(f.tips[1] + f.tips[2] + f.tips[3] + f.tips[4], Len(f.tips))

\* the window taken in seconds against a clock in milliseconds
Debounced_seconds(t, last) == t - last < DebounceTime \div 1000

\* now - this.lastGestureTime < this.debounceTime
Debounced(t, last) == t - last < DebounceTime

\* the chain without the tests of the current mode
GestureTarget_anyMode(f, m) ==
    IF f.pinch < PinchThreshold THEN "FOCUS"
    ELSE IF RLt(AvgDistance(f), RInt(FistThreshold)) THEN "TREE"
    ELSE IF RLt(RInt(OpenThreshold), AvgDistance(f)) THEN "SCATTER"
    ELSE "none"

\* the if / else-if chain of processGestures: the mode it switches to, or "none"
GestureTarget(f, m) ==
    IF f.pinch < PinchThreshold /\ m # "FOCUS" THEN "FOCUS"
    ELSE IF RLt(AvgDistance(f), RInt(FistThreshold)) /\ m # "TREE" THEN "TREE"
    ELSE IF RLt(RInt(OpenThreshold), AvgDistance(f)) /\ m # "SCATTER" THEN "SCATTER"
    ELSE "none"

\* the user starts to hold one hand pose still: from now on every video
\* frame carries the same landmarks
holdSteady ==
    /\ isAvailable /\ ~steady.on
    /\ \E f \in Frames :
        /\ steady' = [on |-> TRUE, frame |-> f, changes |-> 0]
        /\ ev' = Event("hold", f, NoCall(mode, obj), 0)
    /\ UNCHANGED <<cfgVars, loopVars, mode, obj, sceneVars, touchVars, lastGestureTime,
                   gestureAt, now>>

\* history: one more transition under the pose held still (counted up to 2)
Held(called) ==
    [steady EXCEPT !.changes = IF steady.on /\ called /\ @ < 2 THEN @ + 1 ELSE @]

\* processGestures(landmarks) as a method of an available recognizer: the
\* frames are handed to it directly; whether predictWebcam gets to call it
\* is modelled with the prediction loop below
processGestures ==
    /\ isAvailable
    /\ \E f \in Frames :
        LET skip == Debounced(now, lastGestureTime)
            target == IF skip THEN "none" ELSE GestureTarget(f, mode)
        IN  \E c \in CallChoices(target, obj, particles, photos) :
                LET e == Call(target, mode, obj, particles, photos, isMobile, c)
                IN
                /\ steady.on => f = steady.frame
                /\ mode' = e.mode
                /\ obj' = e.obj
                /\ lastGestureTime' = IF target = "none" THEN lastGestureTime ELSE now
                /\ gestureAt' = IF e.setMode # <<>> THEN now ELSE gestureAt
                /\ steady' = Held(e.setMode # <<>>)
                /\ ev' = Event("gesture",
                               [frame |-> f, skipped |-> skip, from |-> mode,
                                since |-> now - gestureAt], e, 0)
    /\ UNCHANGED <<cfgVars, loopVars, sceneVars, touchVars, now>>

----------------------------------------------------------------------------
(* Start-up: ChristmasTreeApp.init, GestureRecognizer.initialize and the
   prediction loop predictWebcam *)

\* how the awaited steps of initialize / initMediaPipe end: the library and
\* the camera are there, the import or the model download fails, or
\* getUserMedia is refused
GestureOutcomes == {"ready", "noLibrary", "noCamera"}

\* this.predictWebcam() called directly: with the flag still false it
\* returns before requestAnimationFrame; otherwise a frame is requested
CallPredictWebcam(avail, pending) == IF ~avail THEN pending ELSE "frame"

\* initialize() of script.js: not attempted on a mobile or low-tier device;
\* setupWebcam calls predictWebcam() before isAvailable is set
initialize(mob, level, outcome) ==
    IF mob \/ level = "low" THEN [isAvailable |-> FALSE, loopScheduled |-> "none"]
    ELSE IF outcome = "ready"
    THEN [isAvailable |-> TRUE, loopScheduled |-> CallPredictWebcam(FALSE, "none")]
    ELSE [isAvailable |-> FALSE, loopScheduled |-> "none"]

\* initialize() of part_000: not attempted on a low-tier mobile device
initialize_p0(mob, level, outcome) ==
    IF mob /\ level = "low" THEN [isAvailable |-> FALSE, loopScheduled |-> "none"]
    ELSE IF outcome = "ready"
    THEN [isAvailable |-> TRUE, loopScheduled |-> CallPredictWebcam(FALSE, "none")]
    ELSE [isAvailable |-> FALSE, loopScheduled |-> "none"]

\* createParticles and createDefaultPhoto of init, on empty collections
FirstScene(mob, maxP) ==
    {IF variant = "part_001"
     THEN addPhotoToScene_p1(o, [i \in DecorIds |-> i], <<>>, NumDecor + 1, mob)
     ELSE addPhotoToScene(o, [i \in DecorIds |-> i], <<>>, NumDecor + 1, maxP, mob) :
        o \in createParticles("TREE", mob)}

\* what init leaves of the scene, and its history
Started(outcome) ==
    /\ \E r \in FirstScene(isMobile, maxPhotos) :
        /\ obj' = r.obj
        /\ particles' = r.particles
        /\ photos' = r.photos
        /\ ev' = NewScene(Event("init", outcome, Effect(mode, r.obj, <<>>, <<"TREE">>), 0))
    /\ nextId' = NumDecor + 2
    /\ added' = <<NumDecor + 1>>
    /\ phase' = "ready"
    /\ UNCHANGED <<variant, isMobile, maxPhotos, performanceLevel, isTouch, isAnimating,
                   frameCounter, reading, mode, touchVars, gestureVars, now>>

\* init of script.js: initThreeJS (setupOrbitControls), initialize off
\* mobile, createParticles, createDefaultPhoto, setupEventListeners, the
\* touch controller if the device has touch and gestures are unavailable
init ==
    /\ variant = "script" /\ phase = "constructed"
    /\ \E outcome \in GestureOutcomes :
        LET g == IF ~isMobile THEN initialize(isMobile, performanceLevel, outcome)
                 ELSE [isAvailable |-> isAvailable, loopScheduled |-> loopScheduled]
        IN  /\ enableRotate' = ~isMobile
            /\ isAvailable' = g.isAvailable
            /\ loopScheduled' = g.loopScheduled
            /\ isEnabled' = (isTouch /\ ~g.isAvailable)
            /\ Started(outcome)

\* init of part_000: initGestureRecognition enables the touch controller
\* when initialize() returned false on a touch device
init_p0 ==
    /\ variant = "part_000" /\ phase = "constructed"
    /\ \E outcome \in GestureOutcomes :
        LET g == initialize_p0(isMobile, performanceLevel, outcome)
        IN  /\ enableRotate' = ~isMobile
            /\ isAvailable' = g.isAvailable
            /\ loopScheduled' = g.loopScheduled
            /\ isEnabled' = (~g.isAvailable /\ isTouch)
            /\ Started(outcome)

\* init of part_001 (isAvailable stands for gestureRecognitionAvailable,
\* isEnabled for touchControlsActive): initMediaPipe leaves a loadeddata
\* listener on the video when the camera opened; touch controls on mobile
init_p1 ==
    /\ variant = "part_001" /\ phase = "constructed"
    /\ \E outcome \in GestureOutcomes :
        /\ enableRotate' = TRUE
        /\ isAvailable' = FALSE
        /\ loopScheduled' = IF outcome = "ready" THEN "loadeddata" ELSE "none"
        /\ isEnabled' = isMobile
        /\ Started(outcome)

\* part_001: this.gestureThrottleTime
ThrottleTime_p1(mob) == IF mob THEN 300 ELSE 200

\* results.landmarks of a video frame: no hand (seen = FALSE), or one hand
LoopFrames ==
    {[seen |-> FALSE, pinch |-> 0, tips |-> <<0, 0, 0, 0>>]}
    \cup [seen : {TRUE}, pinch : {30, 100},
          tips : {<<200, 200, 200, 200>>, <<500, 500, 500, 500>>}]

\* part_001: the if / else-if chain of processGestures, whose thresholds are
\* 0.08, 0.3 and 0.35 on mobile and those of script.js elsewhere
GestureTarget_p1(f, m, mob) ==
    LET pinchThreshold == IF mob THEN 80 ELSE 50
        fistThreshold == IF mob THEN 300 ELSE 250
        openThreshold == IF mob THEN 350 ELSE 400
    IN  IF f.pinch < pinchThreshold /\ m # "FOCUS" THEN "FOCUS"
        ELSE IF RLt(AvgDistance(f), RInt(fistThreshold)) /\ m # "TREE" THEN "TREE"
        ELSE IF RLt(RInt(openThreshold), AvgDistance(f)) /\ m # "SCATTER" THEN "SCATTER"
        ELSE "none"

\* history of one run of the predictWebcam body
Predicted(ran, hand, passed) == [ran |-> ran, hand |-> hand, passed |-> passed]

\* The body of predictWebcam on a video frame with the landmarks hand.
\* processGestures is that of part_001, the only variant in which the body
\* gets past its first line: window gestureThrottleTime.
PredictWebcamBody(avail, hand) ==
    IF ~avail THEN
        /\ loopScheduled' = "none"
        /\ ev' = Event("predict", Predicted(FALSE, hand, FALSE), NoCall(mode, obj), 0)
        /\ UNCHANGED <<mode, obj, gestureVars>>
    ELSE IF ~hand.seen THEN
        /\ loopScheduled' = "frame"
        /\ ev' = Event("predict", Predicted(TRUE, hand, FALSE), NoCall(mode, obj), 0)
        /\ UNCHANGED <<mode, obj, gestureVars>>
    ELSE
        LET skip == now - lastGestureTime < ThrottleTime_p1(isMobile)
            target == IF skip THEN "none" ELSE GestureTarget_p1(hand, mode, isMobile)
        IN  \E c \in CallChoices(target, obj, particles, photos) :
                LET e == Call(target, mode, obj, particles, photos, isMobile, c)
                IN
                /\ mode' = e.mode
                /\ obj' = e.obj
                /\ lastGestureTime' = IF target = "none" THEN lastGestureTime ELSE now
                /\ gestureAt' = IF e.setMode # <<>> THEN now ELSE gestureAt
                /\ steady' = Held(e.setMode # <<>>)
                /\ loopScheduled' = "frame"
                /\ ev' = Event("predict", Predicted(TRUE, hand, TRUE), e, 0)

\* part_001: the loadeddata listener sets the flag and calls predictWebcam()
loadeddata_p1 ==
    /\ variant = "part_001" /\ loopScheduled = "loadeddata"
    /\ isAvailable' = TRUE
    /\ \E hand \in LoopFrames : PredictWebcamBody(TRUE, hand)
    /\ UNCHANGED <<variant, isMobile, maxPhotos, isEnabled, performanceLevel, isTouch,
                   enableRotate, phase, isAnimating, frameCounter, reading, sceneVars,
                   touchVars, now>>

\* the requestAnimationFrame callback of the prediction loop
predictWebcam ==
    /\ loopScheduled = "frame"
    /\ \E hand \in LoopFrames : PredictWebcamBody(isAvailable, hand)
    /\ UNCHANGED <<cfgVars, isAnimating, frameCounter, reading, sceneVars, touchVars, now>>

----------------------------------------------------------------------------
(* Render loop: ChristmasTreeApp.animate, pause, resume *)

\* v.lerp(target, alpha) with 0 < alpha < 1, abstracted: a value already on
\* its way to target reaches it, any other value not at target sets out for
\* it.  The float effect animate adds to a decorative mesh (at most 0.005 a
\* frame) is left out.
Lerp(q, target) == IF q.at = target THEN At(target) ELSE Toward(target)

\* the indices (from 0) whose particle the forEach of animate interpolates:
\* if (performanceLevel === 'low' && index % 3 === 0) return;
Interpolated(level, n) == {i \in 0..(n - 1) : ~(level = "low" /\ i % 3 = 0)}

\* the forEach of animate over the collection
AnimateParticles(o, ps, level) ==
    [id \in DOMAIN o |->
        IF \E i \in Interpolated(level, Len(ps)) : ps[i + 1] = id
        THEN [o[id] EXCEPT !.position = Lerp(o[id].position, o[id].targetPosition),
                           !.meshScale = Lerp(o[id].meshScale, o[id].scale)]
        ELSE o[id]]

\* history of a frame: was the app paused, did the body run, which indices
\* were interpolated
Frame(run, shown) == [paused |-> ~isAnimating, frame |-> run, interpolated |-> shown]

\* animate of script.js, one requestAnimationFrame callback
animate ==
    /\ variant = "script" /\ phase = "ready"
    /\ IF ~isAnimating THEN
            /\ obj' = obj
            /\ ev' = Event("animate", Frame("returned", {}), NoCall(mode, obj), 0)
       ELSE
            /\ obj' = AnimateParticles(obj, particles, performanceLevel)
            /\ ev' = Event("animate",
                           Frame("run", Interpolated(performanceLevel, Len(particles))),
                           NoCall(mode, obj), 0)
    /\ UNCHANGED <<cfgVars, loopVars, mode, sceneVars, touchVars, gestureVars, now>>

\* animate of part_000: no test of STATE.isAnimating; on the low tier every
\* second frame returns early
animate_p0 ==
    /\ variant = "part_000" /\ phase = "ready"
    /\ frameCounter' = IF performanceLevel = "low" THEN (frameCounter + 1) % 2 ELSE frameCounter
    /\ IF performanceLevel = "low" /\ frameCounter' = 0 THEN
            /\ obj' = obj
            /\ ev' = Event("animate", Frame("returned", {}), NoCall(mode, obj), 0)
       ELSE
            /\ obj' = AnimateParticles(obj, particles, performanceLevel)
            /\ ev' = Event("animate",
                           Frame("run", Interpolated(performanceLevel, Len(particles))),
                           NoCall(mode, obj), 0)
    /\ UNCHANGED <<cfgVars, loopScheduled, isAnimating, reading, mode, sceneVars,
                   touchVars, gestureVars, now>>

\* the visibilitychange listener: document.hidden ? this.pause() : this.resume()
handleVisibilityChange ==
    /\ phase = "ready"
    /\ \E hidden \in BOOLEAN :
        /\ isAnimating' = ~hidden
        /\ ev' = Event("visibility", hidden, NoCall(mode, obj), 0)
    /\ UNCHANGED <<cfgVars, loopScheduled, frameCounter, reading, mode, obj, sceneVars,
                   touchVars, gestureVars, now>>

----------------------------------------------------------------------------
(* Construction and the specifications *)

\* the fields the constructors set, and the history before any handler ran
Constructed ==
    /\ mode = "TREE"
    /\ loopScheduled = "none"
    /\ isAnimating = TRUE
    /\ frameCounter = 0
    /\ reading = 0
    /\ lastGestureTime = 0
    /\ gestureAt = 0
    /\ touchStartPos = 0
    /\ lastTapTime = 0
    /\ longPressTimer = NoTimer
    /\ pinchStartDistance = 0
    /\ touchCount = 0
    /\ uiHidden = FALSE
    /\ timers = {}
    /\ fingers = 0
    /\ tapSeq = 0
    /\ twoFinger = [second |-> FALSE, pinches |-> 0]
    /\ steady = [on |-> FALSE, frame |-> [pinch |-> 0, tips |-> <<0, 0, 0, 0>>], changes |-> 0]
    /\ now = StartTime
    /\ ev = [op |-> "init", arg |-> 0, setMode |-> <<>>, layout |-> <<"TREE">>,
             toggles |-> 0, run |-> <<>>, tree |-> <<>>, again |-> FALSE]

\* the state after the constructor and init(), on a device of one of the
\* tiers levels: createParticles in mode TREE, then createDefaultPhoto
InitAt(cfgs, levels) ==
    /\ \E c \in cfgs :
        /\ variant = c.variant
        /\ isMobile = c.isMobile
        /\ isAvailable = c.isAvailable
        /\ isEnabled = c.isEnabled
        /\ isTouch = c.isEnabled
        /\ enableRotate = (c.variant = "part_001" \/ ~c.isMobile)
        /\ maxPhotos = c.maxPhotos
        /\ \E r \in FirstScene(c.isMobile, c.maxPhotos) :
            /\ obj = r.obj
            /\ particles = r.particles
            /\ photos = r.photos
    /\ performanceLevel \in levels
    /\ phase = "ready"
    /\ nextId = NumDecor + 2
    /\ added = <<NumDecor + 1>>
    /\ Constructed

\* the same on a device of the middle tier
InitWith(cfgs) == InitAt(cfgs, {"medium"})

Config(v, mob, avail, en, maxP) ==
    [variant |-> v, isMobile |-> mob, isAvailable |-> avail, isEnabled |-> en, maxPhotos |-> maxP]

\* time steps explored between touch events, and between camera frames
TouchSteps == {200, 600}
FrameSteps == {100, 400}

\* The mode controller of script.js with every input that changes the mode:
\* a touch device without gesture recognition, or a desktop with it.
Init ==
    InitWith({Config("script", TRUE, FALSE, TRUE, MaxPhotosLow),
              Config("script", FALSE, TRUE, FALSE, MaxPhotosLow)})

Next ==
    \/ \E key \in Keys : handleKeyDown(key)
    \/ handleModeButton
    \/ handleTouchStart
    \/ handleTouchMove
    \/ handleTouchEnd
    \/ handleLongPress
    \/ processGestures
    \/ \E dt \in {LongPressMs} : Tick(dt)

Spec == Init /\ [][Next]_vars

\* The TouchController of script.js and of part_000 on a touch device, with
\* the key that also toggles the UI.
InitTouch ==
    InitWith({Config(v, TRUE, FALSE, TRUE, MaxPhotosLow) : v \in {"script", "part_000"}})

NextTouch ==
    \/ handleTouchStart
    \/ handleTouchMove
    \/ handleTouchEnd
    \/ handleTouchStart_p0
    \/ handleTouchMove_p0
    \/ handleTouchEnd_p0
    \/ handleLongPress
    \/ handleKeyDown("h")
    \/ \E dt \in TouchSteps : Tick(dt)

SpecTouch == InitTouch /\ [][NextTouch]_vars

\* The touch controls of part_001 on a mobile device whose gesture
\* recognition did not start.
InitTouch1 == InitWith({Config("part_001", TRUE, FALSE, TRUE, MaxPhotosLow)})

NextTouch1 ==
    \/ touchstart_p1
    \/ touchmove_p1
    \/ touchend_p1
    \/ handleLongPress
    \/ \E dt \in TouchSteps : Tick(dt)

SpecTouch1 == InitTouch1 /\ [][NextTouch1]_vars

\* The GestureRecognizer of script.js on a desktop with a camera.
InitGesture == InitWith({Config("script", FALSE, TRUE, FALSE, MaxPhotosLow)})

NextGesture ==
    \/ processGestures
    \/ \E dt \in FrameSteps : Tick(dt)

SpecGesture == InitGesture /\ [][NextGesture]_vars

\* The GestureRecognizer of script.js under a hand that, from some frame on,
\* is held still: any frames first, then the same landmarks in every frame.
NextSteady ==
    \/ processGestures
    \/ holdSteady
    \/ \E dt \in FrameSteps : Tick(dt)

SpecSteady == InitGesture /\ [][NextSteady]_vars

\* The photo collections of script.js and of part_000.
InitPhotos ==
    InitWith({Config(v, mob, FALSE, FALSE, maxP) :
                v \in {"script", "part_000"}, mob \in BOOLEAN,
                maxP \in {MaxPhotosLow, MaxPhotosLow + 1}})

NextPhotos ==
    \/ handleFileUpload
    \/ readerOnload
    \/ handleModeButton
    \/ reinitialize
    \/ reinitialize_p0

SpecPhotos == InitPhotos /\ [][NextPhotos]_vars

\* decorative particles and photos of the collections handed to the layout
\* engine
MaxDecor == 3
MaxScenePhotos == 2

\* The collections after createParticles made nd decorative particles (with
\* its layout pass in mode TREE) and np photos were added.
SceneOf(nd, np, mob) ==
    LET decor == [i \in 1..nd |-> i]
        fresh == [id \in 1..nd |-> NewParticle(FALSE, mob)]
        laid == updateParticlePositions("TREE", fresh, decor, <<>>, mob, 0, [i \in 1..nd |-> NoDraw])
    IN  [obj |-> [id \in 1..(nd + np) |-> IF id <= nd THEN laid[id] ELSE NewParticle(TRUE, mob)],
         particles |-> [i \in 1..(nd + np) |-> i],
         photos |-> [j \in 1..np |-> nd + j]]

\* The layout engine as a function of the collections: every collection of
\* up to MaxDecor decorative particles and up to MaxScenePhotos photos (none
\* included), on both device classes, laid out in any order of modes.
InitLayout ==
    /\ variant = "script"
    /\ isMobile \in BOOLEAN
    /\ isAvailable = FALSE
    /\ isEnabled = FALSE
    /\ isTouch = FALSE
    /\ enableRotate = ~isMobile
    /\ performanceLevel = "medium"
    /\ phase = "ready"
    /\ maxPhotos = MaxPhotosLow
    /\ \E nd \in 1..MaxDecor, np \in 0..MaxScenePhotos :
        LET sc == SceneOf(nd, np, isMobile)
        IN  /\ obj = sc.obj
            /\ particles = sc.particles
            /\ photos = sc.photos
            /\ nextId = nd + np + 1
            /\ added = sc.photos
    /\ Constructed

NextLayout ==
    \/ handleModeButton
    \/ handleKeyDown(" ")

SpecLayout == InitLayout /\ [][NextLayout]_vars

\* The render loop of script.js and of part_000 on the low and the high
\* tier, with the mode buttons and the page being hidden and shown.
InitRender ==
    InitAt({Config(v, mob, FALSE, FALSE, MaxPhotosLow) :
                v \in {"script", "part_000"}, mob \in BOOLEAN},
           {"low", "high"})

NextRender ==
    \/ animate
    \/ animate_p0
    \/ handleVisibilityChange
    \/ handleModeButton

SpecRender == InitRender /\ [][NextRender]_vars

\* the applications as constructed, before init() has run
InitConstructed(cfgs) ==
    /\ \E c \in cfgs :
        /\ variant = c.variant
        /\ isMobile = c.isMobile
        /\ isTouch = c.isTouch
        /\ performanceLevel = c.performanceLevel
    /\ maxPhotos = MaxPhotosLow
    /\ isAvailable = FALSE
    /\ isEnabled = FALSE
    /\ enableRotate = FALSE
    /\ phase = "constructed"
    /\ obj = <<>>
    /\ particles = <<>>
    /\ photos = <<>>
    /\ nextId = 1
    /\ added = <<>>
    /\ Constructed

Profile(v, mob, touch, level) ==
    [variant |-> v, isMobile |-> mob, isTouch |-> touch, performanceLevel |-> level]

\* Start-up and the prediction loop: script.js and part_000 on every device
\* profile, part_001 on a desktop and on a mobile device.
InitLoop ==
    InitConstructed(
        {Profile(v, mob, touch, level) :
            v \in {"script", "part_000"}, mob \in BOOLEAN, touch \in BOOLEAN,
            level \in {"low", "medium", "high"}}
        \cup {Profile("part_001", mob, mob, "medium") : mob \in BOOLEAN})

NextLoop ==
    \/ init
    \/ init_p0
    \/ init_p1
    \/ loadeddata_p1
    \/ predictWebcam
    \/ \E dt \in FrameSteps : Tick(dt)

SpecLoop == InitLoop /\ [][NextLoop]_vars

\* The photo collections of part_001 from start-up on, on a mobile device and
\* on a desktop, with the hand gestures that change the mode.
InitPhotos1 ==
    InitConstructed({Profile("part_001", mob, mob, "medium") : mob \in BOOLEAN})

NextPhotos1 ==
    \/ init_p1
    \/ handleFileUpload
    \/ readerOnload_p1
    \/ loadeddata_p1
    \/ predictWebcam

SpecPhotos1 == InitPhotos1 /\ [][NextPhotos1]_vars

----------------------------------------------------------------------------
(* Properties *)

\* C1: every frame that processGestures evaluates outside the debounce window
\* and that satisfies the pinch threshold leaves the mode FOCUS, whatever the
\* mode was and whatever the fingertip distances are.
C1_PinchPriority ==
    (ev.op = "gesture" /\ ~ev.arg.skipped /\ ev.arg.frame.pinch < PinchThreshold)
        => mode = "FOCUS"

\* C2: a frame that arrives less than debounceTime after the last
\* gesture-triggered transition causes no transition; hence two
\* gesture-triggered transitions are at least debounceTime apart.
C2_Debounce ==
    ev.op = "gesture" =>
        /\ ev.arg.since < DebounceTime => ev.setMode = <<>> /\ mode = ev.arg.from
        /\ ev.setMode # <<>> => ev.arg.since >= DebounceTime

\* a qualifying frame arrived inside the window of an earlier transition
C2_SuppressedFrame ==
    /\ ev.op = "gesture"
    /\ ev.arg.since < DebounceTime
    /\ GestureTarget(ev.arg.frame, ev.arg.from) # "none"

\* C3: the photo list is the most recently added min(k, maxPhotos) photos in
\* order of addition, never longer than maxPhotos, and the photo objects of
\* the particle collection are exactly those of the photo list.
C3_PhotoFifo ==
    LET k == Len(added)
        n == IF k < maxPhotos THEN k ELSE maxPhotos
    IN  /\ Len(photos) <= maxPhotos
        /\ photos = SubSeq(added, k - n + 1, k)
        /\ \A i \in 1..k : InSeq(particles, added[i]) <=> InSeq(photos, added[i])
        /\ Cardinality({i \in 1..Len(particles) : obj[particles[i]].isPhoto}) = Len(photos)

\* an upload that evicted, after an earlier one that evicted
C3_EvictedTwice == ev.op = "upload" /\ Len(added) = maxPhotos + 2

\* C4: the mode is TREE at startup and always one of TREE, SCATTER, FOCUS.
C4_ModeEnum ==
    /\ mode \in {"TREE", "SCATTER", "FOCUS"}
    /\ ev.op = "init" => mode = "TREE"

\* a fist brought the mode back to TREE
C4_BackToTree == ev.op = "gesture" /\ ev.setMode = <<"TREE">> /\ mode = "TREE"

\* C5: a next-mode request (space key, long-press) moves TREE to SCATTER,
\* SCATTER to FOCUS, FOCUS to TREE; the third of three consecutive requests
\* restores the mode the first one started from.
C5_NextModeCycle ==
    ev.op \in {"key", "longpress"} =>
        /\ ev.run # <<>>
        /\ ev.run[Len(ev.run)] = "TREE" => mode = "SCATTER"
        /\ ev.run[Len(ev.run)] = "SCATTER" => mode = "FOCUS"
        /\ ev.run[Len(ev.run)] = "FOCUS" => mode = "TREE"
        /\ Len(ev.run) = 3 => mode = ev.run[1]

\* a long-press was the third consecutive request
C5_ThirdRequest == ev.op = "longpress" /\ Len(ev.run) = 3

\* C6: a step changes the mode only by calling setMode, and a step that calls
\* setMode leaves the mode it was called with and the heap of one layout pass
\* for that mode.
C6_SoleWriterWithLayout ==
    [][/\ mode' # mode => ev'.setMode # <<>>
       /\ ev'.setMode # <<>> =>
            /\ ev'.setMode = <<mode'>>
            /\ \E c \in Choices(mode', obj, particles, photos) :
                obj' = updateParticlePositions(mode', obj, particles, photos, isMobile,
                                               c[1], c[2])]_vars

\* a touch pinch called setMode
C6_PinchCalled == ev.op = "touchmove" /\ ev.setMode = <<"FOCUS">> /\ mode = "FOCUS"

\* C7: a two-finger touchmove with a recorded start distance d0 > 0 calls
\* setMode('FOCUS') exactly when distance / d0 < 0.7 and the mode is not
\* FOCUS; otherwise it changes neither the mode nor the layout.
C7_TouchPinch ==
    [][(ev'.op = "touchmove" /\ ev'.arg.touches = 2 /\ ev'.arg.start > 0) =>
        /\ ev'.setMode = <<"FOCUS">> <=>
                (10 * ev'.arg.dist < 7 * ev'.arg.start /\ mode # "FOCUS")
        /\ ev'.setMode = <<"FOCUS">> => mode' = "FOCUS"
        /\ ev'.setMode # <<"FOCUS">> =>
                ev'.setMode = <<>> /\ mode' = mode /\ obj' = obj]_vars

\* a pinch at ratio 0.69 made the transition
C7_PinchAt69 ==
    /\ ev.op = "touchmove"
    /\ ev.arg.touches = 2
    /\ ev.arg.dist = 69
    /\ ev.arg.start = 100
    /\ ev.setMode = <<"FOCUS">>

\* C8: in script.js the long-press callback runs only if no touchmove, no
\* touchend and no second-finger touchstart was dispatched since the
\* touchstart that armed it.
C8_LongPressCancelled ==
    (variant = "script" /\ ev.op = "longpress") => ~ev.arg.disturbed

\* C9: the second touchend of two single-finger taps, more than 50 ms and less
\* than 300 ms after the first, toggles the UI once and calls no setMode.
C9_DoubleTapToggles ==
    (/\ ev.op = "touchend"
     /\ ev.arg.second
     /\ ev.arg.gap > DoubleTapMinMs
     /\ ev.arg.gap < DoubleTapMaxMs)
        => ev.toggles = 1 /\ ev.setMode = <<>>

\* C10: after setMode('FOCUS') with at least one photo, exactly one photo is
\* at the stage (0, 2, 35 / 25) with scale 4.5 / 3.5; every other photo is at
\* least 20 / 15 from the origin, with the normal scale.
C10_FocusStage ==
    (ev.setMode = <<"FOCUS">> /\ photos # <<>>) =>
        LET stage == Vec(IF isMobile THEN RInt(25) ELSE RInt(35), <<1, 4>>, RInt(2))
            big == IF isMobile THEN <<7, 2>> ELSE <<9, 2>>
            ringMin == IF isMobile THEN RInt(15) ELSE RInt(20)
            normal == IF isMobile THEN <<4, 5>> ELSE One
        IN  \E k \in 1..Len(photos) :
                /\ obj[photos[k]].targetPosition = stage
                /\ obj[photos[k]].scale = big
                /\ \A j \in 1..Len(photos) : j # k =>
                    /\ obj[photos[j]].targetPosition # stage
                    /\ RLe(RMul(ringMin, ringMin), DistSq(obj[photos[j]].targetPosition))
                    /\ obj[photos[j]].scale = normal

\* FOCUS was laid out with three photos in the list
C10_ThreePhotos == ev.setMode = <<"FOCUS">> /\ Len(photos) = 3

\* C11: a layout pass in FOCUS mode over a collection without photos leaves
\* the targetPosition and the scale of every particle as they were.
C11_FocusNoPhotos ==
    [][(ev'.layout = <<"FOCUS">> /\ photos = <<>>) =>
        /\ DOMAIN obj' = DOMAIN obj
        /\ \A id \in DOMAIN obj :
            /\ obj'[id].targetPosition = obj[id].targetPosition
            /\ obj'[id].scale = obj[id].scale]_vars

\* FOCUS was laid out over two decorative particles and no photo, after a
\* SCATTER pass
C11_FocusOnDecorOnly ==
    /\ ev.layout = <<"FOCUS">>
    /\ photos = <<>>
    /\ Len(particles) = 2
    /\ obj[particles[1]].targetPosition # TreeTarget(0, 2, isMobile)

\* C12: a layout pass writes only targetPosition and scale.  It leaves the
\* two collections, the set of objects, the mode it ran in and every other
\* field of every particle as they were; in TREE and SCATTER it leaves photo
\* particles untouched.
C12_LayoutFrame ==
    [][ev'.layout # <<>> /\ ev'.op \in {"button", "key"} =>
        /\ particles' = particles
        /\ photos' = photos
        /\ mode' = ev'.layout[1]
        /\ DOMAIN obj' = DOMAIN obj
        /\ \A id \in DOMAIN obj :
            /\ obj'[id] = [obj[id] EXCEPT !.targetPosition = obj'[id].targetPosition,
                                          !.scale = obj'[id].scale]
            /\ obj'[id].isPhoto = obj[id].isPhoto
            /\ obj'[id].basePosition = obj[id].basePosition
            /\ obj'[id].velocity = obj[id].velocity
            /\ obj'[id].rotationSpeed = obj[id].rotationSpeed
            /\ (obj[id].isPhoto /\ ev'.layout[1] \in {"TREE", "SCATTER"}) => obj'[id] = obj[id]]_vars

\* a TREE pass ran while a photo held the stage of an earlier FOCUS pass
C12_TreeKeepsStage ==
    /\ ev.layout = <<"TREE">>
    /\ ev.op = "button"
    /\ \E j \in 1..Len(photos) :
        /\ obj[photos[j]].targetPosition = StageTarget(isMobile)
        /\ obj[photos[j]].scale = StageScale(isMobile)

\* C13: after a SCATTER layout pass every decorative particle's target lies
\* at a distance from the origin between minRadius and maxRadius (8 and 20
\* on desktop, 6 and 15 on mobile).
C13_ScatterShell ==
    ev.layout = <<"SCATTER">> =>
        LET lo == IF isMobile THEN RInt(6) ELSE RInt(8)
            hi == IF isMobile THEN RInt(15) ELSE RInt(20)
        IN  \A i \in 1..Len(particles) :
                ~obj[particles[i]].isPhoto =>
                    /\ RLe(RMul(lo, lo), DistSq(obj[particles[i]].targetPosition))
                    /\ RLe(DistSq(obj[particles[i]].targetPosition), RMul(hi, hi))

\* C14: after a TREE layout of a collection of n particles, the decorative
\* particle at index i has horizontal radius maxRadius * (1 - 0.8 * i / n):
\* maxRadius at index 0, non-increasing along the collection, never below
\* 0.2 * maxRadius.
C14_TreeRadius ==
    ev.setMode = <<"TREE">> =>
        LET n == Len(particles)
            maxRadius == IF isMobile THEN 8 ELSE 12
            radius(i) == obj[particles[i + 1]].targetPosition.r
            decor(i) == ~obj[particles[i + 1]].isPhoto
        IN  /\ \A i \in 0..(n - 1) : decor(i) =>
                    /\ radius(i) = Rat(maxRadius * (5 * n - 4 * i), 5 * n)
                    /\ RLe(Rat(maxRadius, 5), radius(i))
                    /\ RLe(radius(i), RInt(maxRadius))
            /\ decor(0) => radius(0) = RInt(maxRadius)
            /\ \A i, j \in 0..(n - 1) : (decor(i) /\ decor(j) /\ i < j) =>
                    RLe(radius(j), radius(i))

\* TREE was laid out over three decorative particles and two photos
C14_FiveParticles ==
    /\ ev.setMode = <<"TREE">>
    /\ Len(particles) = 5
    /\ Len(photos) = 2
    /\ RLt(obj[particles[3]].targetPosition.r, obj[particles[2]].targetPosition.r)

\* C15: a TREE pass over unchanged collections gives the decorative
\* particles exactly the targets and scales the previous TREE pass gave
\* them, whatever passes (TREE, SCATTER, FOCUS) ran in between.
C15_TreeRestores ==
    [][(ev'.layout = <<"TREE">> /\ ev.tree # <<>> /\ particles' = particles) =>
        DecorLayout(obj', particles') = ev.tree]_vars

\* the third of three next-mode requests laid TREE out again, after a
\* SCATTER and a FOCUS pass that followed an earlier TREE pass
C15_RoundTrip ==
    /\ ev.op = "key"
    /\ ev.layout = <<"TREE">>
    /\ ev.again
    /\ ev.run = <<"TREE", "SCATTER", "FOCUS">>
    /\ Len(particles) > Len(photos) + 1

\* C16: every frame whose body runs while the app is not paused interpolates
\* every particle of the collection, on every performance tier.
C16_EveryParticle ==
    (ev.op = "animate" /\ ~ev.arg.paused /\ ev.arg.frame = "run") =>
        \A i \in 1..Len(particles) : (i - 1) \in ev.arg.interpolated

\* C17: between pause() and the next resume() no frame changes the position
\* or the scale of any mesh, in script.js and in part_000.
C17_PausedFramesIdle ==
    [][(ev'.op = "animate" /\ ~isAnimating) =>
        \A id \in DOMAIN obj :
            /\ obj'[id].position = obj[id].position
            /\ obj'[id].meshScale = obj[id].meshScale]_vars

\* C18: in script.js and part_000, once initialize() has succeeded and
\* isAvailable is true, a frame of the prediction loop is pending (so that
\* later frames with a hand reach processGestures).
C18_LoopRunning ==
    (variant \in {"script", "part_000"} /\ phase = "ready" /\ isAvailable) =>
        loopScheduled = "frame"

\* C19: script.js, after init, on every device profile and for every outcome
\* of the gesture initialization, has hand gestures, the touch controller or
\* orbit-control rotation active.
C19_RotationInput ==
    (variant = "script" /\ phase = "ready") =>
        (isAvailable \/ isEnabled \/ enableRotate)

\* C20: a change event of the file input on a mobile device with a file
\* larger than 5 * 1024 * 1024 bytes changes neither the photo list, the
\* particle collection, the targets nor the mode, and starts no load that
\* could add a photo later.
C20_OversizedRejected ==
    [][(ev'.op = "fileChange" /\ isMobile /\ ev'.arg.size > 5 * 1024 * 1024) =>
        /\ photos' = photos
        /\ particles' = particles
        /\ obj' = obj
        /\ mode' = mode
        /\ reading' = reading
        /\ nextId' = nextId]_vars

\* an oversized file was chosen on mobile while an earlier upload was still
\* loading, after FOCUS was laid out
C20_OversizedChosen ==
    /\ ev.op = "fileChange"
    /\ isMobile
    /\ ev.arg.size > 5 * 1024 * 1024
    /\ reading = 1
    /\ mode = "FOCUS"

\* C21: in part_001 a two-finger touch calls setMode('FOCUS') only when the
\* current inter-finger distance is below 0.7 of the distance at the start of
\* the gesture, and only when the mode is not FOCUS already.
C21_PinchRatio_p1 ==
    [][(variant = "part_001" /\ ev'.op \in {"touchstart", "touchmove"}
            /\ ev'.setMode = <<"FOCUS">>) =>
        /\ 10 * ev'.arg.dist < 7 * ev'.arg.start
        /\ mode # "FOCUS"]_vars

\* C22: in part_001, once a second finger has been placed, the long-press
\* callback does not run before a new single-finger touch has started.
C22_SecondFingerCancels_p1 ==
    (variant = "part_001" /\ ev.op = "longpress") => ~twoFinger.second

\* C23: in part_001, on mobile and on desktop, the photo list never holds
\* more than the maximum number of photos and is the most recently added
\* ones in order of addition (the oldest is the one removed).
C23_PhotoBound_p1 ==
    (variant = "part_001" /\ phase = "ready") =>
        LET k == Len(added)
            n == IF k < MaxPhotosLow THEN k ELSE MaxPhotosLow
        IN  /\ Len(photos) <= MaxPhotosLow
            /\ photos = SubSeq(added, k - n + 1, k)

\* C24: start-up and every reinitialize run createParticles with its layout
\* pass of the current mode, and createParticles, in whichever mode is
\* current, leaves every decorative particle with a target and a scale that
\* the pass of that mode assigns (TREE: the cone position of its index and
\* the normal scale; SCATTER and FOCUS: a point of the shell with a scale of
\* the range of the mode).
C24_CreatedInMode ==
    LET Assigned(m, p, i) ==
            IF m = "TREE"
            THEN /\ p.targetPosition = TreeTarget(i - 1, NumDecor, isMobile)
                 /\ p.scale = NormalScale(isMobile)
            ELSE IF m = "SCATTER"
            THEN \E d \in Draws :
                    /\ p.targetPosition = ScatterTarget(d, isMobile)
                    /\ p.scale = ScatterScale(d)
            ELSE \E d \in Draws :
                    /\ p.targetPosition = FocusDecorTarget(d, isMobile)
                    /\ p.scale = FocusDecorScale(d)
    IN  /\ ev.op \in {"init", "reinitialize"} =>
                /\ ev.layout = <<mode>>
                /\ \A i \in DecorIds : Assigned(mode, obj[particles[i]], i)
        /\ \A o \in createParticles(mode, isMobile) :
                \A i \in DecorIds : Assigned(mode, o[i], i)

\* C25: whenever the mode is FOCUS and the photo list is not empty, exactly
\* one photo of the list holds the stage target (0, 2, 35 / 25) with the
\* enlarged scale 4.5 / 3.5, across uploads, evictions and reinitialize.
C25_OneOnStage ==
    (mode = "FOCUS" /\ photos # <<>>) =>
        LET stage == Vec(IF isMobile THEN RInt(25) ELSE RInt(35), <<1, 4>>, RInt(2))
            big == IF isMobile THEN <<7, 2>> ELSE <<9, 2>>
        IN  Cardinality({j \in 1..Len(photos) :
                            /\ obj[photos[j]].targetPosition = stage
                            /\ obj[photos[j]].scale = big}) = 1

\* C26: while the landmarks stay the same in every frame, processGestures
\* changes the mode at most once, whatever the mode was when the pose began
\* and however long it is held.
C26_SteadyHand == steady.on => steady.changes <= 1

\* C27: the photo list is exactly the sub-sequence of the particle collection
\* made of the particles flagged isPhoto, in the same order, and no particle
\* occurs twice in the particle collection or in the photo list.
C27_PhotosInParticles ==
    /\ photos = SelectSeq(particles, LAMBDA id : obj[id].isPhoto)
    /\ \A i, j \in 1..Len(particles) : particles[i] = particles[j] => i = j
    /\ \A i, j \in 1..Len(photos) : photos[i] = photos[j] => i = j

\* an upload evicted the oldest photo while two other photos stayed, after
\* FOCUS had been laid out
C27_EvictedInFocus ==
    /\ ev.op = "upload"
    /\ mode = "FOCUS"
    /\ Len(photos) = MaxPhotosLow + 1
    /\ Len(added) > Len(photos)

\* C28: a setMode call made by processGestures or by the touch pinch names a
\* mode other than the current one, so the mode changes; and
\* lastGestureTime is written only in a step in which processGestures makes
\* such a call.
C28_RealTransitions ==
    [][/\ (ev'.op \in {"gesture", "touchmove"} /\ ev'.setMode # <<>>) =>
            /\ Len(ev'.setMode) = 1
            /\ ev'.setMode[1] # mode
            /\ mode' # mode
       /\ lastGestureTime' # lastGestureTime =>
            /\ ev'.op = "gesture"
            /\ ev'.setMode # <<>>
            /\ lastGestureTime' = now]_vars

\* a frame evaluated outside the window of an earlier transition triggered
\* nothing and left the timestamp of that transition
C28_QuietFrame ==
    /\ ev.op = "gesture"
    /\ ~ev.arg.skipped
    /\ ev.setMode = <<>>
    /\ lastGestureTime >= StartTime
    /\ lastGestureTime = gestureAt

\* C29: between a two-finger touchstart and the next touchend the touch pinch
\* calls setMode('FOCUS') at most once, also when a key or a mode button
\* moves the mode away from FOCUS while the two fingers are down.
C29_OnePinchPerGesture == twoFinger.pinches <= 1

\* after the pinch had triggered, another input left FOCUS, and a further
\* two-finger touchmove of the same gesture found the start distance cleared
C29_SecondMoveIgnored ==
    /\ ev.op = "touchmove"
    /\ ev.arg.touches = 2
    /\ ev.arg.start = 0
    /\ ev.setMode = <<>>
    /\ twoFinger.pinches = 1
    /\ mode # "FOCUS"
    /\ pinchStartDistance = 0

\* C30: in part_001 the touch controls and the hand-gesture recognition are
\* never active together, whenever the camera's loadeddata event arrives.
C30_TouchOrGestures_p1 ==
    variant = "part_001" => ~(isEnabled /\ isAvailable)

====
